---- MODULE Spec2Model ----
(***************************************************************************)
(* Model of the HTTP relay server in src/server/routes.ts: the per-IP      *)
(* fixed-window rate limiter, the credential validator, the signed         *)
(* exchange request helper, and the four route handlers (ticker, account   *)
(* snapshot, trade placement, AI analyze).                                 *)
(*                                                                         *)
(* JavaScript values are tagged records: [t |-> "undefined"],              *)
(* [t |-> "null"], [t |-> "string", s |-> ...], [t |-> "number", n |-> ...],*)
(* [t |-> "decimal", int |-> ..., e5 |-> ...] (the number int + e5/100000), *)
(* [t |-> "nan"] (the number NaN), [t |-> "array", items |-> <<...>>],     *)
(* [t |-> "object", f |-> [field |-> value, ...]].  A thrown exception is  *)
(* the value Throw.                                                        *)
(*                                                                         *)
(* The request body is what the JSON body parser hands to the handler: an  *)
(* object, some of whose fields may be absent.                             *)
(***************************************************************************)
EXTENDS Integers, Sequences, FiniteSets, TLC

\* ------------------------------------------------------------------ bounds

\* Requests of each client other than the first, per window, when several
\* clients are served together.
MaxOtherArrivals == 2

\* Number of 1 ms clock steps and of window-length clock steps in a run.
MaxShortTicks == 1
MaxLongTicks == 2
\* Requests one client may send inside one window of the reference reading.
MaxArrivals == 62
\* Account snapshots one client may request inside one window.
MaxSnapshots == 2

\* ------------------------------------------------------- program constants

windowMs == 60000
maxRequests == 60

\* ------------------------------------------------------------- JS values

Undefined == [t |-> "undefined"]
JNull == [t |-> "null"]
JStr(s) == [t |-> "string", s |-> s]
JNum(n) == [t |-> "number", n |-> n]
\* The number int + e5 / 100000, with 0 <= e5 < 100000.
JDec(int, e5) == [t |-> "decimal", int |-> int + (e5 \div 100000), e5 |-> e5 % 100000]
NaN == [t |-> "nan"]
Infinity == [t |-> "infinity"]
JArr(items) == [t |-> "array", items |-> items]
JObj(f) == [t |-> "object", f |-> f]
Throw == [t |-> "throw"]

Nullish(v) == v.t \in {"undefined", "null"}

\* ToBoolean: undefined, null, "", 0 and NaN are falsy.
Truthy(v) ==
    /\ ~Nullish(v)
    /\ v.t # "nan"
    /\ (v.t = "string" => v.s # "")
    /\ (v.t = "number" => v.n # 0)
    /\ (v.t = "decimal" => v.int # 0 \/ v.e5 # 0)

\* v.k for a value that is not undefined or null (those throw, see callers).
Get(v, k) == IF v.t = "object" /\ k \in DOMAIN v.f THEN v.f[k] ELSE Undefined

\* a || b
OrElse(a, b) == IF Truthy(a) THEN a ELSE b

\* ------------------------------------------------------------ rate limiter

\* rateLimit.get(ip) is undefined exactly when ip is not a key of the map.
HasEntry(map, ip) == ip \in DOMAIN map

\* req.ip || req.socket.remoteAddress || 'unknown'
ClientKey(conn) == OrElse(conn.ip, OrElse(conn.remoteAddress, JStr("unknown"))).s

WindowExpiredAtReset(current, t) == t >= current.resetTime
WindowExpired(current, t) == t > current.resetTime

OverLimitOffByOne(current) == current.count > maxRequests
OverLimit(current) == current.count >= maxRequests

FreshEntry(t) == [count |-> 1, resetTime |-> t + windowMs]

\* rateLimit.set(ip, entry)
MapSet(map, ip, entry) ==
    [x \in DOMAIN map \cup {ip} |-> IF x = ip THEN entry ELSE map[x]]

\* A limiter that clears the map when it opens a window.
rateLimitMiddlewareClearing(map, ip, t) ==
    IF ~HasEntry(map, ip) \/ WindowExpired(map[ip], t)
    THEN [map |-> MapSet(<< >>, ip, FreshEntry(t)), verdict |-> "next"]
    ELSE IF OverLimit(map[ip])
         THEN [map |-> map, verdict |-> "429"]
         ELSE [map |-> [map EXCEPT ![ip].count = @ + 1], verdict |-> "next"]

\* A limiter whose increment is lost.
rateLimitMiddlewareLostUpdate(map, ip, t) ==
    IF ~HasEntry(map, ip) \/ WindowExpired(map[ip], t)
    THEN [map |-> MapSet(map, ip, FreshEntry(t)), verdict |-> "next"]
    ELSE IF OverLimit(map[ip])
         THEN [map |-> map, verdict |-> "429"]
         ELSE [map |-> map, verdict |-> "next"]

\* The verdict of rateLimitMiddleware for a request from ip at time t:
\* the map afterwards, and whether next() was called or 429 was sent.
rateLimitMiddleware(map, ip, t) ==
    IF ~HasEntry(map, ip) \/ WindowExpired(map[ip], t)
    THEN [map |-> MapSet(map, ip, FreshEntry(t)), verdict |-> "next"]
    ELSE IF OverLimit(map[ip])
         THEN [map |-> map, verdict |-> "429"]
         ELSE [map |-> [map EXCEPT ![ip].count = @ + 1], verdict |-> "next"]

\* --------------------------------------------------- credential validator

validateApiKeysOffByOne(apiKey, secretKey) ==
    /\ Truthy(apiKey) /\ Truthy(secretKey)
    /\ apiKey.t = "string" /\ secretKey.t = "string"
    /\ ~(Len(apiKey.s) <= 10 \/ Len(secretKey.s) <= 10)
validateApiKeys(apiKey, secretKey) ==
    /\ Truthy(apiKey) /\ Truthy(secretKey)
    /\ apiKey.t = "string" /\ secretKey.t = "string"
    /\ ~(Len(apiKey.s) < 10 \/ Len(secretKey.s) < 10)

\* ------------------------------------------------------------------- JSON

\* Bodies an upstream may send, as text.
TxtHtml == "<html>502 Bad Gateway</html>"
TxtNull == "null"
TxtEmptyObj == "{}"
TxtOrderOk == "{\"code\":0,\"data\":\"1020150\"}"
TxtCode200 == "{\"code\":200}"
TxtCodeErrMsg == "{\"code\":602,\"message\":\"Signature verification failed!\"}"
TxtCodeStr == "{\"code\":\"0\"}"
TxtNoData == "{\"code\":0}"
TxtDataObj == "{\"code\":0,\"data\":{}}"
TxtDataNullItem == "{\"code\":0,\"data\":[null]}"
TxtSpot == "{\"balances\":[{\"asset\":\"BTC\",\"free\":\"0.00002\",\"locked\":\"0\"},{\"asset\":\"ETH\",\"free\":\"0.00001\",\"locked\":\"0\"}]}"
TxtSpotObj == "{\"balances\":{}}"
TxtFutures == "{\"code\":0,\"data\":[{\"currency\":\"USDT\",\"availableBalance\":90,\"frozenBalance\":10,\"balance\":100}]}"
TxtPositions == "{\"code\":0,\"data\":[{\"positionId\":7,\"symbol\":\"BTC_USDT\",\"positionType\":1,\"holdAvgPrice\":100,\"fairPrice\":101,\"leverage\":5,\"unrealizedPnl\":2,\"margin\":20,\"liquidatePrice\":80},{\"symbol\":\"ETH_USDT\",\"positionType\":2,\"margin\":0}]}"
TxtOrders == "{\"code\":0,\"data\":[{\"orderId\":\"9\",\"symbol\":\"BTC_USDT\",\"price\":100,\"vol\":1,\"side\":1,\"type\":1,\"createTime\":1700}]}"
TxtTicker == "{\"symbol\":\"BTCUSDT\",\"lastPrice\":\"67000.10\",\"priceChangePercent\":\"-1.25\",\"volume\":\"1520.5\"}"
TxtTrades == "{\"code\":0,\"data\":[{\"orderId\":\"8\",\"symbol\":\"BTC_USDT\",\"avgPrice\":99,\"vol\":1,\"side\":3,\"updateTime\":1701}]}"

\* What JSON.parse / response.json() yields for each text that is JSON.
JSONTable ==
    (TxtNull :> JNull)
    @@ (TxtTicker :> JObj([symbol |-> JStr("BTCUSDT"), lastPrice |-> JStr("67000.10"),
                           priceChangePercent |-> JStr("-1.25"), volume |-> JStr("1520.5")]))
    @@ (TxtEmptyObj :> JObj(<< >>))
    @@ (TxtOrderOk :> JObj([code |-> JNum(0), data |-> JStr("1020150")]))
    @@ (TxtCode200 :> JObj([code |-> JNum(200)]))
    @@ (TxtCodeErrMsg :> JObj([code |-> JNum(602),
                               message |-> JStr("Signature verification failed!")]))
    @@ (TxtCodeStr :> JObj([code |-> JStr("0")]))
    @@ (TxtNoData :> JObj([code |-> JNum(0)]))
    @@ (TxtDataObj :> JObj([code |-> JNum(0), data |-> JObj(<< >>)]))
    @@ (TxtDataNullItem :> JObj([code |-> JNum(0), data |-> JArr(<<JNull>>)]))
    @@ (TxtSpot :> JObj([balances |-> JArr(<<
            JObj([asset |-> JStr("BTC"), free |-> JStr("0.00002"), locked |-> JStr("0")]),
            JObj([asset |-> JStr("ETH"), free |-> JStr("0.00001"), locked |-> JStr("0")])>>)]))
    @@ (TxtSpotObj :> JObj([balances |-> JObj(<< >>)]))
    @@ (TxtFutures :> JObj([code |-> JNum(0), data |-> JArr(<<
            JObj([currency |-> JStr("USDT"), availableBalance |-> JNum(90),
                  frozenBalance |-> JNum(10), balance |-> JNum(100)])>>)]))
    @@ (TxtPositions :> JObj([code |-> JNum(0), data |-> JArr(<<
            JObj([positionId |-> JNum(7), symbol |-> JStr("BTC_USDT"),
                  positionType |-> JNum(1), holdAvgPrice |-> JNum(100),
                  fairPrice |-> JNum(101), leverage |-> JNum(5),
                  unrealizedPnl |-> JNum(2), margin |-> JNum(20),
                  liquidatePrice |-> JNum(80)]),
            JObj([symbol |-> JStr("ETH_USDT"), positionType |-> JNum(2),
                  margin |-> JNum(0)])>>)]))
    @@ (TxtOrders :> JObj([code |-> JNum(0), data |-> JArr(<<
            JObj([orderId |-> JStr("9"), symbol |-> JStr("BTC_USDT"),
                  price |-> JNum(100), vol |-> JNum(1), side |-> JNum(1),
                  type |-> JNum(1), createTime |-> JNum(1700)])>>)]))
    @@ (TxtTrades :> JObj([code |-> JNum(0), data |-> JArr(<<
            JObj([orderId |-> JStr("8"), symbol |-> JStr("BTC_USDT"),
                  avgPrice |-> JNum(99), vol |-> JNum(1), side |-> JNum(3),
                  updateTime |-> JNum(1701)])>>)]))

\* JSON.parse(text): the value, or Throw (SyntaxError) for text that is not JSON.
JSONParse(text) == IF text \in DOMAIN JSONTable THEN JSONTable[text] ELSE Throw

\* --------------------------------------------------- signed request helper

\* What fetch() resolves or rejects with.
NetFail == [kind |-> "neterr"]
HttpResp(status, ct, text) ==
    [kind |-> "http", status |-> status, contentType |-> ct, text |-> text]

CtJson == JStr("application/json")
CtJsonCharset == JStr("application/json; charset=utf-8")
CtText == JStr("text/plain")

\* response.ok
Ok(resp) == resp.status >= 200 /\ resp.status <= 299

\* contentType && contentType.includes("application/json")
IsJsonContentType(ct) == Truthy(ct) /\ ct \in {CtJson, CtJsonCharset}

Fulfilled(v) == [status |-> "fulfilled", value |-> v]
Rejected(m) == [status |-> "rejected", reason |-> m]

\* String(v) for the values used in error messages.
ToStr(v) == IF v.t = "string" THEN v.s ELSE v.t

\* result.code !== undefined && result.code !== 200 && result.code !== 0
CodeIsError(result) ==
    LET code == Get(result, "code") IN
    /\ code # Undefined
    /\ code # JNum(200)
    /\ code # JNum(0)

\* result.msg || result.message || `MEXC Error ${result.code || response.status}`
ErrorMessage(result) ==
    LET m == OrElse(Get(result, "msg"), Get(result, "message")) IN
    IF Truthy(m) THEN ToStr(m) ELSE "MEXC Error"

\* mexcPrivateRequest after fetch settles with resp: what the call's promise
\* settles with.
mexcPrivateRequest(resp) ==
    IF resp.kind = "neterr" THEN Rejected("fetch failed")
    ELSE IF IsJsonContentType(resp.contentType)
    THEN LET result == JSONParse(resp.text) IN
         IF result = Throw THEN Rejected("SyntaxError")
         ELSE IF Nullish(result) THEN Rejected("TypeError")
         ELSE IF ~Ok(resp) \/ CodeIsError(result) THEN Rejected(ErrorMessage(result))
         ELSE Fulfilled(result)
    ELSE IF ~Ok(resp) THEN Rejected("MEXC API Error")
    ELSE LET parsed == JSONParse(resp.text) IN
         IF parsed = Throw THEN Rejected("Invalid response from MEXC")
         ELSE Fulfilled(parsed)

\* One call of mexcPrivateRequest: pc "signing" (awaiting hmacSign, nothing
\* sent yet), "fetching" (request sent, awaiting fetch), "settled".
NoResp == [kind |-> "none"]
NoResult == [status |-> "pending"]
NewCall(baseUrl, endpoint, method, params) ==
    [baseUrl |-> baseUrl, endpoint |-> endpoint, method |-> method, params |-> params,
     pc |-> "signing", issued |-> 0, resp |-> NoResp, result |-> NoResult]

\* ------------------------------------------------------------------ state

VARIABLES
    now,         \* Date.now()
    shortTicks,  \* 1 ms clock steps taken
    longTicks,   \* window-length clock steps taken
    rateLimit,   \* the rateLimit Map: client key -> [count, resetTime]
    req,         \* per handler record: the request being handled, or the last one
    verdict,     \* per client key: what the limiter did with its latest request
    refWin,      \* per client key: the window of the reference reading
    admitLog,    \* per observed client key: admissions of the last 60 s, by time
    ai,          \* the /api/ai/analyze request being handled, or the last one
    tk           \* the /api/market/ticker request being handled, or the last one

vars == <<now, shortTicks, longTicks, rateLimit, req, verdict, refWin, admitLog, ai, tk>>
clockVars == <<now, shortTicks, longTicks>>

\* Connections requests arrive on, and the map keys they yield.
ConnDirect == [ip |-> JStr("10.0.0.1"), remoteAddress |-> JStr("10.0.0.1")]
ConnSocketOnly == [ip |-> Undefined, remoteAddress |-> JStr("10.0.0.2")]
ConnUnknown == [ip |-> Undefined, remoteAddress |-> Undefined]
Keys == {"10.0.0.1", "10.0.0.2", "unknown"}

Idle == [pc |-> "idle"]
NoRes == [sent |-> FALSE]
\* res.status(status).json(json)
Res(status, json) == [sent |-> TRUE, status |-> status, json |-> json]
ErrBody(m) == JObj([error |-> JStr(m)])
Awaiting(route, body, calls) ==
    [pc |-> "awaiting", route |-> route, body |-> body, calls |-> calls, res |-> NoRes]
Done(route, body, calls, res) ==
    [pc |-> "done", route |-> route, body |-> body, calls |-> calls, res |-> res]

\* ----------------------------------------------- reference reading (ghost)

\* The window a request at time t from key k falls in, as the specification
\* reads it: a new window opens with the first request and with the first
\* request later than 60000 ms after the window opened.
RefStep(ref, k, t) ==
    IF k \notin DOMAIN ref \/ t > ref[k].start + 60000
    THEN MapSet(ref, k, [start |-> t, seen |-> 1])
    ELSE [ref EXCEPT ![k].seen = @ + 1]

\* At most limit requests of one client inside one window.
ArrivalAllowed(k, limit) ==
    IF k \notin DOMAIN refWin THEN TRUE
    ELSE now > refWin[k].start + 60000 \/ refWin[k].seen < limit

\* Admissions by time of admission, those older than 60 s dropped.
LogPrune(log, t) == [x \in {y \in DOMAIN log : y >= t - 60000} |-> log[x]]
LogAdd(log, t) ==
    [x \in DOMAIN log \cup {t} |->
        IF x \in DOMAIN log THEN log[x] + (IF x = t THEN 1 ELSE 0) ELSE 1]
RECURSIVE LogSum(_, _)
LogSum(log, S) ==
    IF S = {} THEN 0
    ELSE LET x == CHOOSE y \in S : TRUE IN log[x] + LogSum(log, S \ {x})

\* ------------------------------------------------------------------ clock

Tick ==
    /\ \/ /\ shortTicks < MaxShortTicks
          /\ shortTicks' = shortTicks + 1
          /\ longTicks' = longTicks
          /\ now' = now + 1
       \/ /\ longTicks < MaxLongTicks
          /\ longTicks' = longTicks + 1
          /\ shortTicks' = shortTicks
          /\ now' = now + windowMs
    /\ admitLog' = [k \in DOMAIN admitLog |-> LogPrune(admitLog[k], now')]
    /\ UNCHANGED <<rateLimit, req, verdict, refWin, ai, tk>>

\* Time passes until every window open now has expired.
WindowsExpire ==
    /\ longTicks < MaxLongTicks
    /\ longTicks' = longTicks + 1
    /\ shortTicks' = shortTicks
    /\ now' = now + windowMs + 1
    /\ admitLog' = [k \in DOMAIN admitLog |-> LogPrune(admitLog[k], now')]
    /\ UNCHANGED <<rateLimit, req, verdict, refWin, ai, tk>>

\* -------------------------------------------------------- trade placement

\* A body field whose value is Undefined is an absent field.
TradeBody(action, apiKey, secretKey) ==
    JObj([action |-> action, apiKey |-> apiKey, secretKey |-> secretKey,
          symbol |-> JStr("BTC_USDT"), leverage |-> JNum(5)])

\* ['LONG', 'SHORT', 'CLOSE'].includes(action)
IsTradeAction(action) == action \in {JStr("LONG"), JStr("SHORT"), JStr("CLOSE")}

\* action === 'LONG' ? 1 : (action === 'SHORT' ? 2 : 3)
SideOf(action) == IF action = JStr("LONG") THEN 1 ELSE IF action = JStr("SHORT") THEN 2 ELSE 3

OrderParams(body) ==
    [symbol |-> Get(body, "symbol"), vol |-> JNum(1),
     side |-> JNum(SideOf(Get(body, "action"))), type |-> JNum(5),
     openType |-> JNum(1), leverage |-> Get(body, "leverage")]

\* The trade handler from its entry to its first await.
tradeHandlerNoActionCheck(body) ==
    IF ~validateApiKeys(Get(body, "apiKey"), Get(body, "secretKey"))
    THEN Done("trade", body, << >>, Res(400, ErrBody("Invalid MEXC API keys provided")))
    ELSE Awaiting("trade", body,
             <<NewCall("https://fapi.mexc.com", "/futures/api/v1/private/order/create",
                       "POST", OrderParams(body))>>)
tradeHandler(body) ==
    IF ~validateApiKeys(Get(body, "apiKey"), Get(body, "secretKey"))
    THEN Done("trade", body, << >>, Res(400, ErrBody("Invalid MEXC API keys provided")))
    ELSE IF ~IsTradeAction(Get(body, "action"))
    THEN Done("trade", body, << >>, Res(400, ErrBody("Invalid trade action")))
    ELSE Awaiting("trade", body,
             <<NewCall("https://fapi.mexc.com", "/futures/api/v1/private/order/create",
                       "POST", OrderParams(body))>>)

\* A request reaches a rate-limited route: the middleware runs and, unless it
\* answers 429, the handler runs to its first await (start).
Arrival(k, route, body, start, limit) ==
    /\ req[k].pc # "awaiting"
    /\ ArrivalAllowed(k, limit)
    /\ LET rl == rateLimitMiddleware(rateLimit, k, now) IN
       /\ rateLimit' = rl.map
       /\ verdict' = MapSet(verdict, k, rl.verdict)
       /\ req' = [req EXCEPT ![k] =
                    IF rl.verdict = "429"
                    THEN Done(route, body, << >>,
                              Res(429, ErrBody("Too many requests, please try again later")))
                    ELSE start]
    /\ refWin' = RefStep(refWin, k, now)
    /\ UNCHANGED clockVars

TradeRequest(conn, body) ==
    /\ Arrival(ClientKey(conn), "trade", body, tradeHandler(body), MaxArrivals)
    /\ UNCHANGED <<admitLog, ai, tk>>

\* The same, with the admission recorded.
TradeRequestObserved(conn, body) ==
    /\ Arrival(ClientKey(conn), "trade", body, tradeHandler(body), MaxArrivals)
    /\ LET k == ClientKey(conn)
           log == IF k \in DOMAIN admitLog THEN admitLog[k] ELSE << >> IN
       admitLog' = MapSet(admitLog, k,
                       IF verdict'[k] = "next" THEN LogAdd(LogPrune(log, now), now)
                       ELSE LogPrune(log, now))
    /\ UNCHANGED <<ai, tk>>

\* A request of the client on conn arrives while other handlers may be
\* suspended at an await; slot is the free handler record that tracks it (a
\* client may have several requests in flight).  The middleware runs to its
\* end before anything else does: it contains no await.
InterleavedRequest(slot, conn, body, limit) ==
    LET k == ClientKey(conn)
        rl == rateLimitMiddleware(rateLimit, k, now)
        log == IF k \in DOMAIN admitLog THEN admitLog[k] ELSE << >> IN
    /\ req[slot].pc # "awaiting"
    /\ ArrivalAllowed(k, limit)
    /\ rateLimit' = rl.map
    /\ verdict' = MapSet(verdict, k, rl.verdict)
    /\ req' = [req EXCEPT ![slot] =
                 IF rl.verdict = "429"
                 THEN Done("trade", body, << >>,
                           Res(429, ErrBody("Too many requests, please try again later")))
                 ELSE tradeHandler(body)]
    /\ refWin' = RefStep(refWin, k, now)
    /\ admitLog' = MapSet(admitLog, k,
                       IF rl.verdict = "next" THEN LogAdd(LogPrune(log, now), now)
                       ELSE LogPrune(log, now))
    /\ UNCHANGED <<clockVars, ai, tk>>

\* hmacSign has resolved: the call sends its request.
CallIssue(k, i) ==
    /\ req[k].pc = "awaiting"
    /\ i \in DOMAIN req[k].calls
    /\ req[k].calls[i].pc = "signing"
    /\ req' = [req EXCEPT ![k].calls[i].pc = "fetching", ![k].calls[i].issued = @ + 1]
    /\ UNCHANGED <<clockVars, rateLimit, verdict, refWin, admitLog, ai, tk>>

\* fetch has settled with resp: the call's promise settles.
CallSettle(k, i, resp) ==
    /\ req[k].pc = "awaiting"
    /\ i \in DOMAIN req[k].calls
    /\ req[k].calls[i].pc = "fetching"
    /\ req' = [req EXCEPT ![k].calls[i].pc = "settled",
                          ![k].calls[i].resp = resp,
                          ![k].calls[i].result = mexcPrivateRequest(resp)]
    /\ UNCHANGED <<clockVars, rateLimit, verdict, refWin, admitLog, ai, tk>>

\* The trade handler after its await: the result verbatim, or 500.
TradeRespond(k) ==
    /\ req[k].pc = "awaiting"
    /\ req[k].route = "trade"
    /\ req[k].calls[1].pc = "settled"
    /\ LET result == req[k].calls[1].result IN
       req' = [req EXCEPT ![k].pc = "done",
                          ![k].res = IF result.status = "fulfilled"
                                     THEN Res(200, result.value)
                                     ELSE Res(500, ErrBody(result.reason))]
    /\ UNCHANGED <<clockVars, rateLimit, verdict, refWin, admitLog, ai, tk>>

\* ------------------------------------------------------- account snapshot

AccountBody(apiKey, secretKey) ==
    JObj([apiKey |-> apiKey, secretKey |-> secretKey, symbol |-> JStr("BTC_USDT")])

\* parseFloat on the amounts drawn here: a decimal string, a number, or
\* anything else (NaN).
FloatTable ==
    ("0.00002" :> JDec(0, 2)) @@ ("0.00001" :> JDec(0, 1)) @@ ("0" :> JDec(0, 0))
    @@ ("67000.10" :> JDec(67000, 10000)) @@ ("-1.25" :> JDec(-1, -25000))
    @@ ("1520.5" :> JDec(1520, 50000))
parseFloat(v) ==
    IF v.t = "string" /\ v.s \in DOMAIN FloatTable THEN FloatTable[v.s]
    ELSE IF v.t = "number" THEN JDec(v.n, 0)
    ELSE IF v.t = "decimal" THEN v
    ELSE NaN

\* a + b on parseFloat results
Plus(a, b) ==
    IF a.t = "decimal" /\ b.t = "decimal" THEN JDec(a.int + b.int, a.e5 + b.e5) ELSE NaN

\* a * n for a whole number n
Times(a, n) == JDec(a.int * n, a.e5 * n)

\* total > 0.00001
AboveDust(total) == total.t = "decimal" /\ (total.int > 0 \/ (total.int = 0 /\ total.e5 > 1))

\* (a / b) * 100 on numbers and undefined (exact on the amounts drawn here)
Percent(a, b) ==
    IF a.t # "number" \/ b.t # "number" THEN NaN
    ELSE IF b.n = 0 THEN (IF a.n = 0 THEN NaN ELSE Infinity)
    ELSE JNum((a.n * 100) \div b.n)

\* list.filter(b => b.total > 0.00001)
FilterDust(items) == SelectSeq(items, LAMBDA b : AboveDust(Get(b, "total")))

SpotItem(b) ==
    IF Nullish(b) THEN Throw
    ELSE JObj([asset |-> Get(b, "asset"),
               available |-> parseFloat(Get(b, "free")),
               frozen |-> parseFloat(Get(b, "locked")),
               total |-> Plus(parseFloat(Get(b, "free")), parseFloat(Get(b, "locked")))])

FuturesItem(b) ==
    IF Nullish(b) THEN Throw
    ELSE JObj([asset |-> Get(b, "currency"),
               available |-> Get(b, "availableBalance"),
               frozen |-> Get(b, "frozenBalance"),
               total |-> Get(b, "balance")])

\* Math.random().toString()
RandomId == JStr("0.<random digits>")

PositionItem(p) ==
    IF Nullish(p) THEN Throw
    ELSE JObj([id |-> OrElse(Get(p, "positionId"), RandomId),
               symbol |-> Get(p, "symbol"),
               side |-> IF Get(p, "positionType") = JNum(1) THEN JStr("LONG") ELSE JStr("SHORT"),
               entryPrice |-> Get(p, "holdAvgPrice"),
               currentPrice |-> Get(p, "fairPrice"),
               leverage |-> Get(p, "leverage"),
               pnl |-> Get(p, "unrealizedPnl"),
               pnlPercent |-> Percent(Get(p, "unrealizedPnl"), Get(p, "margin")),
               margin |-> Get(p, "margin"),
               liquidationPrice |-> Get(p, "liquidatePrice")])

OrderItem(o) ==
    IF Nullish(o) THEN Throw
    ELSE JObj([orderId |-> Get(o, "orderId"),
               symbol |-> Get(o, "symbol"),
               price |-> Get(o, "price"),
               quantity |-> Get(o, "vol"),
               side |-> IF Get(o, "side") = JNum(1) THEN JStr("BUY") ELSE JStr("SELL"),
               type |-> IF Get(o, "type") = JNum(1) THEN JStr("LIMIT") ELSE JStr("MARKET"),
               status |-> JStr("OPEN"),
               createTime |-> Get(o, "createTime")])

TradeItem(t) ==
    IF Nullish(t) THEN Throw
    ELSE JObj([id |-> Get(t, "orderId"),
               symbol |-> Get(t, "symbol"),
               price |-> Get(t, "avgPrice"),
               quantity |-> Get(t, "vol"),
               side |-> IF Get(t, "side") = JNum(1) THEN JStr("BUY") ELSE JStr("SELL"),
               pnl |-> OrElse(Get(t, "realisedPnl"), JNum(0)),
               time |-> Get(t, "updateTime")])

\* The callback given to map for each of the five lists.
ItemOf(list, x) ==
    CASE list = "spotBalances" -> SpotItem(x)
      [] list = "futuresBalances" -> FuturesItem(x)
      [] list = "positions" -> PositionItem(x)
      [] list = "orders" -> OrderItem(x)
      [] list = "trades" -> TradeItem(x)

\* items.map(callback): Throw when the callback throws on an element.
MapItems(items, list) ==
    LET mapped == [i \in DOMAIN items |-> ItemOf(list, items[i])] IN
    IF \E i \in DOMAIN items : mapped[i] = Throw THEN Throw ELSE JArr(mapped)

\* result.status === 'fulfilled' && result.value[field] ? result.value[field].map(...) : []
\* Throw (TypeError) when the value is null or the field is not an array.
BuildList(result, field, list) ==
    IF result.status # "fulfilled" THEN JArr(<< >>)
    ELSE IF Nullish(result.value) THEN Throw
    ELSE LET payload == Get(result.value, field) IN
         IF ~Truthy(payload) THEN JArr(<< >>)
         ELSE IF payload.t # "array" THEN Throw
         ELSE MapItems(payload.items, list)

SpotBalances(result) ==
    LET list == BuildList(result, "balances", "spotBalances") IN
    IF list = Throw THEN Throw ELSE JArr(FilterDust(list.items))

\* The handler after Promise.allSettled: the five lists, or 500 from the catch.
AccountResponse(calls) ==
    LET spotBalances == SpotBalances(calls[1].result)
        futuresBalances == BuildList(calls[2].result, "data", "futuresBalances")
        positions == BuildList(calls[3].result, "data", "positions")
        orders == BuildList(calls[4].result, "data", "orders")
        trades == BuildList(calls[5].result, "data", "trades") IN
    IF Throw \in {spotBalances, futuresBalances, positions, orders, trades}
    THEN Res(500, ErrBody("TypeError"))
    ELSE Res(200, JObj([spotBalances |-> spotBalances,
                        futuresBalances |-> futuresBalances,
                        positions |-> positions,
                        orders |-> orders,
                        trades |-> trades]))

NoParams == << >>

\* The account handler from its entry to its first await.
accountHandler(body) ==
    IF ~validateApiKeys(Get(body, "apiKey"), Get(body, "secretKey"))
    THEN Done("account", body, << >>, Res(400, ErrBody("Invalid MEXC API keys provided")))
    ELSE Awaiting("account", body,
        <<NewCall("https://api.mexc.com", "/api/v3/account", "GET", NoParams),
          NewCall("https://fapi.mexc.com", "/futures/api/v1/private/account/assets",
                  "GET", NoParams),
          NewCall("https://fapi.mexc.com", "/futures/api/v1/private/position/open_details",
                  "GET", NoParams),
          NewCall("https://fapi.mexc.com", "/futures/api/v1/private/order/list/open_orders",
                  "GET", NoParams),
          NewCall("https://fapi.mexc.com", "/futures/api/v1/private/order/list/history_orders",
                  "GET", [states |-> JStr("3,4")])>>)

AccountRequest(conn, body) ==
    /\ Arrival(ClientKey(conn), "account", body, accountHandler(body), MaxSnapshots)
    /\ UNCHANGED <<admitLog, ai, tk>>

\* Promise.all instead: the join ends at the first rejection.
AllFulfilledOrOneRejected(calls) ==
    \/ \A i \in DOMAIN calls : calls[i].pc = "settled"
    \/ \E i \in DOMAIN calls : calls[i].pc = "settled" /\ calls[i].result.status = "rejected"
\* Promise.allSettled: the join ends when every call has settled.
AllSettled(calls) == \A i \in DOMAIN calls : calls[i].pc = "settled"

AccountRespond(k) ==
    /\ req[k].pc = "awaiting"
    /\ req[k].route = "account"
    /\ AllSettled(req[k].calls)
    /\ req' = [req EXCEPT ![k].pc = "done", ![k].res = AccountResponse(req[k].calls)]
    /\ UNCHANGED <<clockVars, rateLimit, verdict, refWin, admitLog, ai, tk>>

\* ------------------------------------------------------------------ ticker

\* symbol.toUpperCase() on the symbols drawn here.
UpperTable == ("btcusdt" :> "BTCUSDT") @@ ("BTCUSDT" :> "BTCUSDT") @@ ("ethusdt" :> "ETHUSDT")
toUpperCase(v) == IF v.t = "string" /\ v.s \in DOMAIN UpperTable THEN JStr(UpperTable[v.s]) ELSE Throw

\* Values Math.random() may return.
RandomSamples == {JDec(0, 0), JDec(0, 50000)}

\* The body built in the catch block from three draws of Math.random().
SyntheticTicker(symbol, r1, r2, r3) ==
    JObj([symbol |-> symbol,
          price |-> Plus(JDec(105000, 0), Times(r1, 1000)),
          change24h |-> Plus(JDec(0, -50000), Times(r2, 3)),
          volume |-> Plus(JDec(50000, 0), Times(r3, 10000)),
          timestamp |-> JNum(now)])

\* The body built from an upstream ticker.
LiveTicker(symbol, data) ==
    JObj([symbol |-> symbol,
          price |-> parseFloat(Get(data, "lastPrice")),
          change24h |-> parseFloat(Get(data, "priceChangePercent")),
          volume |-> parseFloat(Get(data, "volume")),
          timestamp |-> JNum(now)])

TickerState(pc, query, tried, replies, source, res) ==
    [pc |-> pc, query |-> query, tried |-> tried, replies |-> replies,
     source |-> source, res |-> res]

\* The catch block: (req.query.symbol)?.toUpperCase() || 'BTCUSDT' throws again
\* when the symbol is not a string, and then the handler sends nothing.
TickerCatch(query, tried, replies, r1, r2, r3) ==
    LET q == Get(query, "symbol")
        symbol == IF Nullish(q) THEN JStr("BTCUSDT")
                  ELSE IF toUpperCase(q) = Throw THEN Throw
                  ELSE OrElse(toUpperCase(q), JStr("BTCUSDT")) IN
    IF symbol = Throw
    THEN TickerState("crashed", query, tried, replies, "none", NoRes)
    ELSE TickerState("done", query, tried, replies, "synthetic",
                     Res(200, SyntheticTicker(symbol, r1, r2, r3)))

\* (req.query.symbol as string) || 'BTCUSDT', upper-cased for the URL
TickerSymbol(query) == toUpperCase(OrElse(Get(query, "symbol"), JStr("BTCUSDT")))

\* The handler from its entry to its first await: the primary ticker is fetched.
TickerRequest(query) ==
    /\ tk.pc \notin {"primary", "secondary"}
    /\ \E r1 \in RandomSamples, r2 \in RandomSamples, r3 \in RandomSamples :
        tk' = IF TickerSymbol(query) = Throw
              THEN TickerCatch(query, << >>, << >>, r1, r2, r3)
              ELSE TickerState("primary", query, <<"mexc">>, << >>, "none", NoRes)
    /\ UNCHANGED <<clockVars, rateLimit, req, verdict, refWin, admitLog, ai>>

\* The rest of the handler once an upstream has answered 2xx: its body is read.
TickerFromBody(from, reply, tried, replies, r1, r2, r3) ==
    LET data == JSONParse(reply.text) IN
    IF data = Throw \/ Nullish(data)
    THEN TickerCatch(tk.query, tried, replies, r1, r2, r3)
    ELSE TickerState("done", tk.query, tried, replies, from,
                     Res(200, LiveTicker(TickerSymbol(tk.query), data)))

\* fetch of the primary ticker has settled.
TickerPrimarySettles(reply) ==
    /\ tk.pc = "primary"
    /\ \E r1 \in RandomSamples, r2 \in RandomSamples, r3 \in RandomSamples :
        LET replies == <<reply>> IN
        tk' = IF reply.kind = "neterr"
              THEN TickerCatch(tk.query, tk.tried, replies, r1, r2, r3)
              ELSE IF ~Ok(reply)
              THEN TickerState("secondary", tk.query, <<"mexc", "binance">>, replies,
                               "none", NoRes)
              ELSE TickerFromBody("mexc", reply, tk.tried, replies, r1, r2, r3)
    /\ UNCHANGED <<clockVars, rateLimit, req, verdict, refWin, admitLog, ai>>

\* fetch of the secondary ticker has settled.
TickerSecondarySettles(reply) ==
    /\ tk.pc = "secondary"
    /\ \E r1 \in RandomSamples, r2 \in RandomSamples, r3 \in RandomSamples :
        LET replies == Append(tk.replies, reply) IN
        tk' = IF reply.kind = "neterr" \/ ~Ok(reply)
              THEN TickerCatch(tk.query, tk.tried, replies, r1, r2, r3)
              ELSE TickerFromBody("binance", reply, tk.tried, replies, r1, r2, r3)
    /\ UNCHANGED <<clockVars, rateLimit, req, verdict, refWin, admitLog, ai>>

\* -------------------------------------------------------------- AI analyze

AnalyzeBody(settings, marketData) ==
    JObj([settings |-> settings, marketData |-> marketData,
          currentPositionSide |-> JStr("NONE")])

\* list.slice(-10)
Last10(items) ==
    IF Len(items) <= 10 THEN items ELSE SubSeq(items, Len(items) - 9, Len(items))

\* marketData.history?.slice(-10) || []  (strings drawn here have at most 10
\* characters; a value with no slice method throws)
HistoryTail(marketData) ==
    LET h == Get(marketData, "history") IN
    IF Nullish(h) THEN JArr(<< >>)
    ELSE IF h.t = "array" THEN JArr(Last10(h.items))
    ELSE IF h.t = "string" THEN OrElse(h, JArr(<< >>))
    ELSE Throw

\* The values interpolated into the prompt; Throw when marketData is undefined
\* or null, or when the history has no slice method.
Prompt(body) ==
    LET marketData == Get(body, "marketData") IN
    IF Nullish(marketData) THEN Throw
    ELSE IF HistoryTail(marketData) = Throw THEN Throw
    ELSE [symbol |-> Get(marketData, "symbol"), price |-> Get(marketData, "price"),
          change24h |-> Get(marketData, "change24h"), volume |-> Get(marketData, "volume"),
          history |-> HistoryTail(marketData),
          position |-> Get(body, "currentPositionSide")]

DefaultResult ==
    JObj([action |-> JStr("WAIT"), leverage |-> JNum(1),
          reason |-> JStr("Market analysis pending"), confidence |-> JNum(50)])
FailedResult(m) ==
    JObj([action |-> JStr("WAIT"), leverage |-> JNum(1),
          reason |-> JStr(m), confidence |-> JNum(0)])

\* The provider whose branch is taken, "none" when no branch is.
SelectedProvider(settings) ==
    IF Get(settings, "aiProvider") = JStr("gemini") /\ Truthy(Get(settings, "geminiApiKey"))
    THEN "gemini"
    ELSE IF Get(settings, "aiProvider") = JStr("openai") /\ Truthy(Get(settings, "openaiApiKey"))
    THEN "openai"
    ELSE IF Get(settings, "aiProvider") = JStr("deepseek")
            /\ Truthy(Get(settings, "deepseekApiKey"))
    THEN "deepseek"
    ELSE "none"


AiState(pc, body, provider, sent, reply, res) ==
    [pc |-> pc, body |-> body, provider |-> provider, sent |-> sent,
     reply |-> reply, res |-> res]

\* What fetch resolves with: the status and what response.json() yields
\* (Throw when the body is not JSON).
HttpJson(status, json) == [kind |-> "http", status |-> status, json |-> json]

\* v?.k
GetOpt(v, k) == IF Nullish(v) THEN Undefined ELSE Get(v, k)
\* v?.[0]  (an element of a string has none of the fields read after it)
FirstOpt(v) ==
    IF v.t = "array" /\ Len(v.items) >= 1 THEN v.items[1] ELSE Undefined

\* data.candidates?.[0]?.content?.parts?.[0]?.text
GeminiText(data) ==
    GetOpt(FirstOpt(GetOpt(GetOpt(FirstOpt(Get(data, "candidates")), "content"), "parts")), "text")
\* data.choices?.[0]?.message?.content
ChatText(data) == GetOpt(GetOpt(FirstOpt(Get(data, "choices")), "message"), "content")

\* Texts a model may answer with.
DtGood == "{\"action\":\"LONG\",\"leverage\":5,\"reason\":\"uptrend\",\"confidence\":80}"
DtBadAction == "{\"action\":\"BUY\",\"leverage\":5,\"reason\":\"uptrend\",\"confidence\":80}"
DtMissing == "{\"action\":\"SHORT\"}"
DtConfidence == "{\"action\":\"WAIT\",\"leverage\":1,\"reason\":\"flat\",\"confidence\":150}"
DtProse == "I would go long here."
DecisionTable ==
    (DtGood :> JObj([action |-> JStr("LONG"), leverage |-> JNum(5),
                     reason |-> JStr("uptrend"), confidence |-> JNum(80)]))
    @@ (DtBadAction :> JObj([action |-> JStr("BUY"), leverage |-> JNum(5),
                             reason |-> JStr("uptrend"), confidence |-> JNum(80)]))
    @@ (DtMissing :> JObj([action |-> JStr("SHORT")]))
    @@ (DtConfidence :> JObj([action |-> JStr("WAIT"), leverage |-> JNum(1),
                              reason |-> JStr("flat"), confidence |-> JNum(150)]))
    @@ (TxtNull :> JNull)

\* try { result = JSON.parse(text) } catch { keep the default }
\* (the texts drawn here are strings; one outside the table is not JSON)
ParseDecision(text) ==
    IF text.t = "string" /\ text.s \in DOMAIN DecisionTable THEN DecisionTable[text.s]
    ELSE DefaultResult

\* The handler after fetch has settled with reply.
AnalyzeResponse(provider, reply) ==
    IF reply.kind = "neterr" THEN Res(200, FailedResult("Analysis failed: fetch failed"))
    ELSE IF reply.json = Throw THEN Res(200, FailedResult("Analysis failed: SyntaxError"))
    ELSE IF Nullish(reply.json) THEN Res(200, FailedResult("Analysis failed: TypeError"))
    ELSE LET text == IF provider = "gemini" THEN GeminiText(reply.json)
                     ELSE ChatText(reply.json) IN
         IF Truthy(text) THEN Res(200, ParseDecision(text)) ELSE Res(200, DefaultResult)

\* The handler from its entry to its first await.
analyzeHandler(body) ==
    LET settings == Get(body, "settings") IN
    IF Prompt(body) = Throw \/ Nullish(settings)
    THEN AiState("done", body, "none", 0, NoResp,
                 Res(200, FailedResult("Analysis failed: TypeError")))
    ELSE IF SelectedProvider(settings) = "none"
    THEN AiState("done", body, "none", 0, NoResp, Res(200, DefaultResult))
    ELSE AiState("awaiting", body, SelectedProvider(settings), 1, NoResp, NoRes)

AnalyzeRequest(body) ==
    /\ ai.pc # "awaiting"
    /\ ai' = analyzeHandler(body)
    /\ UNCHANGED <<clockVars, rateLimit, req, verdict, refWin, admitLog, tk>>

AnalyzeSettles(reply) ==
    /\ ai.pc = "awaiting"
    /\ ai' = [ai EXCEPT !.pc = "done", !.reply = reply,
                        !.res = AnalyzeResponse(ai.provider, reply)]
    /\ UNCHANGED <<clockVars, rateLimit, req, verdict, refWin, admitLog, tk>>

\* ------------------------------------------------------------ specifications

Init ==
    /\ now = 0
    /\ shortTicks = 0
    /\ longTicks = 0
    /\ rateLimit = << >>
    /\ req = [k \in Keys |-> Idle]
    /\ verdict = << >>
    /\ refWin = << >>
    /\ admitLog = << >>
    /\ ai = Idle
    /\ tk = Idle

\* Bodies that the trade handler answers before any await.
RateBodies == {TradeBody(JStr("LONG"), Undefined, Undefined)}

\* The rate limiter under one client's requests and the passing of time.
NextRate ==
    \/ Tick
    \/ \E body \in RateBodies : TradeRequestObserved(ConnDirect, body)

SpecRate == Init /\ [][NextRate]_vars

KeyValues ==
    {Undefined, JStr(""), JStr("123456789"), JStr("1234567890"), JStr("12345678901"),
     JNum(1234567890), JArr(<<JNum(1), JNum(2), JNum(3), JNum(4), JNum(5),
                              JNum(6), JNum(7), JNum(8), JNum(9), JNum(10)>>)}
ActionValues ==
    {Undefined, JStr("LONG"), JStr("SHORT"), JStr("CLOSE"), JStr("WAIT"),
     JStr("INVALID"), JStr("long"), JNum(1)}
GoodKey == JStr("1234567890")
TradeBodies ==
    {TradeBody(a, GoodKey, GoodKey) : a \in ActionValues}
    \cup {TradeBody(a, JStr("123456789"), GoodKey) : a \in ActionValues}
    \cup {TradeBody(a, Undefined, Undefined) : a \in ActionValues}
CredBodies ==
    {TradeBody(JStr("LONG"), k, s) : k \in KeyValues, s \in KeyValues}

Statuses == {200, 500}
ContentTypes == {JNull, CtJson, CtJsonCharset, CtText}
OrderTexts ==
    {TxtHtml, TxtNull, TxtEmptyObj, TxtOrderOk, TxtCode200, TxtCodeErrMsg, TxtCodeStr}
OrderResponses ==
    {NetFail} \cup {HttpResp(st, ct, tx) : st \in Statuses, ct \in ContentTypes, tx \in OrderTexts}

\* Trade placement by one client.
NextTrade ==
    \/ \E body \in TradeBodies : TradeRequest(ConnDirect, body)
    \/ CallIssue("10.0.0.1", 1)
    \/ \E resp \in OrderResponses : CallSettle("10.0.0.1", 1, resp)
    \/ TradeRespond("10.0.0.1")

SpecTrade == Init /\ [][NextTrade]_vars

\* The credential validator under trade requests with every pair of key values.
NextCreds ==
    \/ \E body \in CredBodies : TradeRequest(ConnDirect, body)
    \/ CallIssue("10.0.0.1", 1)
    \/ \E resp \in {NetFail, HttpResp(200, CtJson, TxtOrderOk)} : CallSettle("10.0.0.1", 1, resp)
    \/ TradeRespond("10.0.0.1")

SpecCreds == Init /\ [][NextCreds]_vars

AccountBodies ==
    {AccountBody(GoodKey, GoodKey), AccountBody(JStr("123456789"), GoodKey),
     AccountBody(Undefined, Undefined)}

\* What each of the five endpoints may answer.
AccountResponses(i) ==
    CASE i = 1 -> {NetFail, HttpResp(200, CtJson, TxtSpot), HttpResp(200, CtJson, TxtEmptyObj),
                   HttpResp(200, CtJson, TxtSpotObj), HttpResp(200, CtText, TxtNull)}
      [] i = 2 -> {NetFail, HttpResp(200, CtJson, TxtFutures), HttpResp(200, CtJson, TxtNoData),
                   HttpResp(200, CtJson, TxtDataObj), HttpResp(200, CtJson, TxtDataNullItem)}
      [] i = 3 -> {NetFail, HttpResp(500, CtJson, TxtCodeErrMsg),
                   HttpResp(200, CtJson, TxtPositions), HttpResp(200, CtJson, TxtNoData),
                   HttpResp(200, CtJson, TxtDataObj)}
      [] i = 4 -> {NetFail, HttpResp(500, CtText, TxtHtml),
                   HttpResp(200, CtJson, TxtOrders), HttpResp(200, CtJson, TxtNoData),
                   HttpResp(200, CtJson, TxtDataObj)}
      [] i = 5 -> {NetFail, HttpResp(200, CtJson, TxtCodeErrMsg),
                   HttpResp(200, CtJson, TxtTrades), HttpResp(200, CtJson, TxtNoData),
                   HttpResp(200, CtJson, TxtDataObj)}

\* Account snapshots of one client; the five calls settle in any order.
NextAccount ==
    \/ \E body \in AccountBodies : AccountRequest(ConnDirect, body)
    \/ \E i \in 1..5 : CallIssue("10.0.0.1", i)
    \/ \E i \in 1..5 : \E resp \in AccountResponses(i) : CallSettle("10.0.0.1", i, resp)
    \/ AccountRespond("10.0.0.1")

SpecAccount == Init /\ [][NextAccount]_vars

Queries ==
    {JObj(<< >>), JObj([symbol |-> JStr("btcusdt")]), JObj([symbol |-> JStr("BTCUSDT")]),
     JObj([symbol |-> JStr("")]),
     JObj([symbol |-> JArr(<<JStr("btcusdt"), JStr("ethusdt")>>)])}
TickerReplies ==
    {NetFail}
    \cup {HttpResp(st, CtJson, tx) : st \in Statuses, tx \in {TxtTicker, TxtEmptyObj, TxtNull}}
    \cup {HttpResp(st, CtText, TxtHtml) : st \in Statuses}

\* The ticker route.
NextTicker ==
    \/ \E query \in Queries : TickerRequest(query)
    \/ \E reply \in TickerReplies : TickerPrimarySettles(reply)
    \/ \E reply \in TickerReplies : TickerSecondarySettles(reply)

SpecTicker == Init /\ [][NextTicker]_vars

\* A settings object; a key that is not configured is an absent field.
ProviderSettings(provider, field, key) ==
    IF key = Undefined THEN JObj([aiProvider |-> JStr(provider)])
    ELSE JObj([aiProvider |-> JStr(provider)] @@ (field :> key))
SettingsValues ==
    {Undefined}
    \cup {ProviderSettings("gemini", "geminiApiKey", k) : k \in {Undefined, JStr(""), JStr("AIza-key")}}
    \cup {ProviderSettings("openai", "openaiApiKey", k) : k \in {Undefined, JStr(""), JStr("sk-key")}}
    \cup {ProviderSettings("deepseek", "deepseekApiKey", k) : k \in {Undefined, JStr(""), JStr("ds-key")}}
    \cup {ProviderSettings("gemini", "openaiApiKey", JStr("sk-key")),
          ProviderSettings("claude", "openaiApiKey", JStr("sk-key"))}
Candle(n) == JObj([time |-> JStr("12:00"), price |-> JNum(n)])
MarketValues ==
    {Undefined, JObj(<< >>),
     JObj([symbol |-> JStr("BTCUSDT"), price |-> JNum(67000), change24h |-> JNum(1),
           volume |-> JNum(1520),
           history |-> JArr([i \in 1..11 |-> Candle(i)])]),
     JObj([symbol |-> JStr("BTCUSDT"), history |-> JStr("flat")]),
     JObj([symbol |-> JStr("BTCUSDT"), history |-> JObj(<< >>)])}
AnalyzeBodies == {AnalyzeBody(st, md) : st \in SettingsValues, md \in MarketValues}

GeminiEnvelope(text) ==
    JObj([candidates |-> JArr(<<JObj([content |->
            JObj([parts |-> JArr(<<JObj([text |-> JStr(text)])>>)])])>>)])
ChatEnvelope(text) ==
    JObj([choices |-> JArr(<<JObj([message |-> JObj([content |-> JStr(text)])])>>)])
DecisionTexts == {DtGood, DtBadAction, DtMissing, DtConfidence, DtProse, TxtNull, ""}
ProviderReplies ==
    {NetFail, HttpJson(502, Throw), HttpJson(200, JNull),
     HttpJson(401, JObj([error |-> JObj([message |-> JStr("invalid api key")])])),
     HttpJson(200, JObj([choices |-> JArr(<< >>)]))}
    \cup {HttpJson(200, GeminiEnvelope(tx)) : tx \in DecisionTexts}
    \cup {HttpJson(200, ChatEnvelope(tx)) : tx \in DecisionTexts}

\* The AI analyze route.
NextAnalyze ==
    \/ \E body \in AnalyzeBodies : AnalyzeRequest(body)
    \/ \E reply \in ProviderReplies : AnalyzeSettles(reply)

SpecAnalyze == Init /\ [][NextAnalyze]_vars

\* Several clients, several requests in flight: arrivals interleave with the
\* handlers' await points and with the passing of time.  Slots are the handler
\* records in use.
InterleavedBodies == {TradeBody(JStr("LONG"), GoodKey, GoodKey)}
InterleavedResponses == {NetFail}
Slots == {"10.0.0.1", "10.0.0.2"}
NextInterleaved ==
    \/ WindowsExpire
    \/ \E slot \in Slots, body \in InterleavedBodies :
          InterleavedRequest(slot, ConnDirect, body, MaxArrivals)
    \/ \E slot \in Slots, body \in InterleavedBodies :
          InterleavedRequest(slot, ConnUnknown, body, MaxOtherArrivals)
    \/ \E slot \in Slots : CallIssue(slot, 1)
    \/ \E slot \in Slots, resp \in InterleavedResponses : CallSettle(slot, 1, resp)
    \/ \E slot \in Slots : TradeRespond(slot)

SpecInterleaved == Init /\ [][NextInterleaved]_vars

\* ------------------------------------------------------------------ claims

\* Admissions of client k inside the 60 s ending now.
AdmittedLast60s(k) ==
    LogSum(admitLog[k], {t \in DOMAIN admitLog[k] : t >= now - 60000})

\* C1: for one client IP, the first 60 requests of a window are admitted, the
\* 61st and every later one in that window is answered 429, and the first
\* request after the window has expired (or with no entry) is admitted and
\* leaves the entry at count 1 with reset time arrival + 60000 ms.
C1_FixedWindowAdmission ==
    \A k \in DOMAIN refWin :
        /\ k \in DOMAIN verdict
        /\ k \in DOMAIN rateLimit
        /\ (refWin[k].seen <= 60 => verdict[k] = "next" /\ req[k].res.status # 429)
        /\ (refWin[k].seen > 60 => verdict[k] = "429" /\ req[k].res.status = 429)
        /\ (refWin[k].seen = 1 =>
               rateLimit[k] = [count |-> 1, resetTime |-> refWin[k].start + 60000])

\* A second window, opened right after the first expired, whose 61st request
\* has just been rejected.
C1_Witness ==
    /\ "10.0.0.1" \in DOMAIN refWin
    /\ refWin["10.0.0.1"].start = 60001
    /\ refWin["10.0.0.1"].seen = 61
    /\ verdict["10.0.0.1"] = "429"
    /\ now = 60001
    /\ 60000 \in DOMAIN admitLog["10.0.0.1"]

\* C9: in any interval of 60 seconds at most 120 requests of one client IP
\* are admitted.
C9_BurstBound ==
    \A k \in DOMAIN admitLog : AdmittedLast60s(k) <= 120

\* A burst across a window edge: 119 admissions inside 60 seconds.
C9_Witness ==
    /\ "10.0.0.1" \in DOMAIN admitLog
    /\ AdmittedLast60s("10.0.0.1") = 119

\* Both keys are strings of at least 10 characters.
ShapeValid(body) ==
    LET a == Get(body, "apiKey")
        b == Get(body, "secretKey") IN
    /\ a.t = "string" /\ Len(a.s) >= 10
    /\ b.t = "string" /\ Len(b.s) >= 10

ActionValid(body) ==
    LET a == Get(body, "action") IN
    a.t = "string" /\ a.s \in {"LONG", "SHORT", "CLOSE"}


\* C3: a trade request with an action outside LONG, SHORT, CLOSE, or with
\* credentials that fail shape validation, is answered with a 4xx status and no
\* call to the exchange is issued while it is handled.
C3_InvalidTradeRejected ==
    \A k \in Keys :
        (req[k].pc # "idle" /\ req[k].route = "trade"
            /\ (~ActionValid(req[k].body) \/ ~ShapeValid(req[k].body)))
        => /\ req[k].pc = "done"
           /\ req[k].res.status >= 400 /\ req[k].res.status <= 499
           /\ req[k].calls = << >>

\* The action "INVALID" with shape-valid credentials, admitted by the limiter
\* and answered 400.
C3_Witness ==
    /\ req["10.0.0.1"].pc = "done"
    /\ req["10.0.0.1"].body = TradeBody(JStr("INVALID"), GoodKey, GoodKey)
    /\ verdict["10.0.0.1"] = "next"
    /\ req["10.0.0.1"].res = Res(400, ErrBody("Invalid trade action"))

\* The body of a response is JSON carrying a code other than 0 and 200.
CarriesErrorCode(resp) ==
    /\ resp.text \in DOMAIN JSONTable
    /\ LET v == JSONTable[resp.text] IN
       /\ v.t = "object"
       /\ "code" \in DOMAIN v.f
       /\ v.f["code"] \notin {JNum(0), JNum(200)}

\* C7: a call fails whenever the upstream status is not 2xx or the body is JSON
\* with a code other than 0 and 200, whatever the content type; it returns a
\* result only for a 2xx response whose body has no code or code 0 or 200.
C7_UpstreamErrorPolicy ==
    \A k \in Keys :
        req[k].pc # "idle" =>
            \A i \in DOMAIN req[k].calls :
                LET c == req[k].calls[i] IN
                (c.pc = "settled" /\ c.resp.kind = "http") =>
                    /\ (~Ok(c.resp) \/ CarriesErrorCode(c.resp)) => c.result.status = "rejected"
                    /\ c.result.status = "fulfilled" => Ok(c.resp) /\ ~CarriesErrorCode(c.resp)

KeysRejected(r) ==
    r.pc = "done" /\ r.res = Res(400, ErrBody("Invalid MEXC API keys provided"))

Min(a, b) == IF a < b THEN a ELSE b

\* C8: validateApiKeys answers true exactly when both keys are strings of at
\* least 10 characters; validating sends nothing upstream and leaves the
\* rate-limit map as the limiter left it.
C8_ValidatorShape ==
    \A k \in Keys :
        (req[k].pc # "idle" /\ verdict[k] = "next") =>
            /\ KeysRejected(req[k]) <=> ~ShapeValid(req[k].body)
            /\ KeysRejected(req[k]) => req[k].calls = << >>
            /\ rateLimit[k] = [count |-> Min(refWin[k].seen, 60),
                               resetTime |-> refWin[k].start + 60000]

\* Two keys of exactly 10 characters pass validation and the call goes out.
C8_Witness ==
    /\ req["10.0.0.1"].pc = "awaiting"
    /\ req["10.0.0.1"].body = TradeBody(JStr("LONG"), GoodKey, GoodKey)
    /\ req["10.0.0.1"].calls[1].issued = 1

\* An admitted account request with shape-valid credentials.
Snapshot(k) ==
    /\ req[k].pc # "idle"
    /\ req[k].route = "account"
    /\ verdict[k] = "next"
    /\ ShapeValid(req[k].body)

ListNames == <<"spotBalances", "futuresBalances", "positions", "orders", "trades">>

\* C2: whatever the five upstream calls do and whatever body a successful call
\* returns, the snapshot responds with the five lists and never with an error;
\* the list of a failed call is empty.
C2_SnapshotNeverErrors ==
    \A k \in Keys :
        (Snapshot(k) /\ req[k].pc = "done") =>
            /\ req[k].res.status = 200
            /\ DOMAIN req[k].res.json.f = {ListNames[i] : i \in 1..5}
            /\ \A i \in 1..5 :
                /\ req[k].res.json.f[ListNames[i]].t = "array"
                /\ req[k].calls[i].result.status = "rejected"
                    => req[k].res.json.f[ListNames[i]] = JArr(<< >>)

\* C10: every admitted, credential-valid snapshot issues all five calls, each
\* exactly once; a call that has not settled can still proceed whatever became
\* of the others; the response is sent only after all five have settled.
C10_FanOutFanIn ==
    \A k \in Keys :
        Snapshot(k) =>
            /\ Len(req[k].calls) = 5
            /\ \A i \in 1..5 :
                LET c == req[k].calls[i] IN
                /\ c.issued = (IF c.pc = "signing" THEN 0 ELSE 1)
                /\ c.pc = "signing" => ENABLED CallIssue(k, i)
                /\ c.pc = "fetching" => ENABLED CallSettle(k, i, NetFail)
                /\ req[k].res.sent => c.pc = "settled"

\* The spot call failed and the futures call succeeded: the response has an
\* empty spotBalances and a populated futuresBalances.
C10_Witness ==
    /\ Snapshot("10.0.0.1")
    /\ req["10.0.0.1"].pc = "done"
    /\ req["10.0.0.1"].calls[1].result.status = "rejected"
    /\ req["10.0.0.1"].calls[2].result.status = "fulfilled"
    /\ req["10.0.0.1"].res.status = 200
    /\ req["10.0.0.1"].res.json.f["spotBalances"] = JArr(<< >>)
    /\ Len(req["10.0.0.1"].res.json.f["futuresBalances"].items) = 1

PrimaryFailed ==
    /\ Len(tk.replies) >= 1
    /\ (tk.replies[1].kind = "neterr" \/ ~Ok(tk.replies[1]))

SecondaryFailed ==
    /\ Len(tk.replies) >= 2
    /\ (tk.replies[2].kind = "neterr" \/ ~Ok(tk.replies[2]))

\* C6: the primary ticker is tried first; whenever it fails (non-2xx status or
\* network error) the secondary is tried next; synthetic data is returned only
\* after both have been tried and have failed; the handler never answers with
\* an error.
C6_TickerFallbackChain ==
    /\ (tk.pc # "idle" /\ tk.tried # << >>) => tk.tried[1] = "mexc"
    /\ (tk.pc = "done" /\ PrimaryFailed) => tk.tried = <<"mexc", "binance">>
    /\ (tk.pc = "done" /\ tk.source = "synthetic")
        => tk.tried = <<"mexc", "binance">> /\ PrimaryFailed /\ SecondaryFailed
    /\ (tk.pc # "idle" /\ tk.res.sent) => tk.res.status = 200


\* A TradeAction record: action, leverage, reason and a confidence in 0..100.
WellFormedDecision(v) ==
    /\ v.t = "object"
    /\ {"action", "leverage", "reason", "confidence"} \subseteq DOMAIN v.f
    /\ v.f["action"] \in {JStr("LONG"), JStr("SHORT"), JStr("CLOSE"), JStr("WAIT")}
    /\ v.f["leverage"].t = "number"
    /\ v.f["reason"].t = "string"
    /\ v.f["confidence"].t = "number"
    /\ v.f["confidence"].n >= 0 /\ v.f["confidence"].n <= 100

\* C4: whatever the request body and whatever the provider does, the handler
\* answers 200 with a well-formed decision record.
C4_DecisionAlwaysWellFormed ==
    ai.pc = "done" => ai.res.status = 200 /\ WellFormedDecision(ai.res.json)

\* The selected provider has no key configured.
NoKeyConfigured(body) ==
    LET settings == Get(body, "settings")
        provider == Get(settings, "aiProvider") IN
    /\ settings.t = "object"
    /\ provider \in {JStr("gemini"), JStr("openai"), JStr("deepseek")}
    /\ Get(settings, provider.s \o "ApiKey") \in {Undefined, JStr("")}

\* C5: with no key configured for the selected provider the result is exactly
\* the default record (WAIT, leverage 1, confidence 50) and no provider call
\* is made, whatever the market data holds.
C5_NoKeyDefault ==
    (ai.pc # "idle" /\ NoKeyConfigured(ai.body) /\ Get(ai.body, "marketData").t = "object")
    => /\ ai.pc = "done"
       /\ ai.sent = 0
       /\ ai.res.status = 200
       /\ Get(ai.res.json, "action") = JStr("WAIT")
       /\ Get(ai.res.json, "leverage") = JNum(1)
       /\ Get(ai.res.json, "confidence") = JNum(50)

\* Admissions of client k logged at time start or later.
AdmittedSince(k, start) ==
    LogSum(admitLog[k], {t \in DOMAIN admitLog[k] : t >= start})

\* While an entry's window is current its count is the number of requests of
\* that client admitted since the window began, and it is always in 1..60.
CountMatchesAdmissions ==
    \A k \in DOMAIN rateLimit :
        /\ rateLimit[k].count >= 1
        /\ rateLimit[k].count <= 60
        /\ k \in DOMAIN admitLog
        /\ (now <= rateLimit[k].resetTime
              => rateLimit[k].count = AdmittedSince(k, rateLimit[k].resetTime - 60000))

\* The step is the arrival of a request of client k.
ArrivalOf(k) ==
    /\ k \in DOMAIN refWin'
    /\ (k \notin DOMAIN refWin \/ refWin'[k] # refWin[k])

\* The step is an arrival that the limiter rejects.
RejectedArrival == \E k \in Keys : ArrivalOf(k) /\ verdict'[k] = "429"

\* C11: with handlers of several clients interleaving at their await points,
\* every entry's count is between 1 and 60 and equals the number of requests
\* of that IP admitted since the entry's current window began (no update is
\* lost), and a rejected request leaves the whole map unchanged.
C11_CounterUnderInterleaving ==
    /\ []CountMatchesAdmissions
    /\ [][RejectedArrival => rateLimit' = rateLimit]_vars

\* In the second window the first client has used its 60 admissions while one
\* of its requests is still awaiting the exchange and another was rejected;
\* the second client has been admitted twice.
C11_Witness ==
    /\ now = 60001
    /\ rateLimit = ("10.0.0.1" :> [count |-> 60, resetTime |-> 120001]
                     @@ "unknown" :> [count |-> 2, resetTime |-> 120001])
    /\ verdict["10.0.0.1"] = "429"
    /\ req["10.0.0.1"].pc = "awaiting"
    /\ req["10.0.0.1"].calls[1].pc = "fetching"
    /\ req["10.0.0.2"].pc = "done"
    /\ req["10.0.0.2"].res.status = 429

\* The latest verdict for each client follows from that client's own earlier
\* arrivals alone (refWin[k] is built from the arrival times of k only).
VerdictFromOwnArrivals ==
    \A k \in DOMAIN refWin :
        /\ k \in DOMAIN verdict
        /\ (verdict[k] = "next") = (refWin[k].seen <= 60)

\* The step leaves the entry of j as it was: absent, or present and equal.
EntryKept(j) ==
    /\ (j \in DOMAIN rateLimit') = (j \in DOMAIN rateLimit)
    /\ (j \in DOMAIN rateLimit => rateLimit'[j] = rateLimit[j])

\* C12: a request from one client IP changes at most the entry keyed by that
\* IP and leaves every other entry unchanged, so that its outcome depends only
\* on the earlier requests of the same IP; an IP that has an entry has one in
\* every later state.
C12_PerIpIsolation ==
    /\ []VerdictFromOwnArrivals
    /\ [][\A j \in Keys :
            /\ (j \in DOMAIN rateLimit => j \in DOMAIN rateLimit')
            /\ (~ArrivalOf(j) => EntryKept(j))]_vars

\* The entry the second client opened at time 0 is still in the map, as it
\* was, two windows later, while the first client has opened a window, used
\* its 60 admissions and been rejected.
C12_Witness ==
    /\ now = 120002
    /\ rateLimit = ("10.0.0.1" :> [count |-> 60, resetTime |-> 180002]
                     @@ "unknown" :> [count |-> 2, resetTime |-> 60000])
    /\ verdict["10.0.0.1"] = "429"
    /\ verdict["unknown"] = "next"

====
